---- MODULE Spec2Model ----
(***************************************************************************)
(* Model of src/app.py, the "Isolated Funding Rate APR Viewer (v10.3)".    *)
(*                                                                         *)
(* One run of the script over one uploaded table is a process whose        *)
(* position pc walks through the blocks of the script in source order.     *)
(*                                                                         *)
(* Units.  A timestamp is a whole number of ticks of 15 minutes.  A raw    *)
(* funding token is a numeral counted in millionths (the text "0.0001" is  *)
(* the numeral 100).  Rates and APR values are exact rationals <<n, d>>    *)
(* in lowest terms with d > 0: the claims about them are stated up to      *)
(* arithmetic tolerance, so the rounding of a double is not observable     *)
(* there.  It is observable in expected_rows, where int() truncates a      *)
(* double, so that expression is computed in IEEE-754 binary64 arithmetic  *)
(* (53-bit significands as bit sequences, round to nearest, ties to even). *)
(***************************************************************************)
EXTENDS Integers, Sequences, FiniteSets, TLC

\* ------------------------------------------------------------------ bounds
\* Longest uploaded table of the general specification.
MaxRows == 3
\* Longest grid of the grid specification.
MaxGridRows == 8

\* ------------------------------------------------- exact rational numbers
Abs(x) == IF x < 0 THEN -x ELSE x

RECURSIVE GCD(_, _)
GCD(a, b) == IF b = 0 THEN a ELSE GCD(b, a % b)

RNorm(n, d) ==
    LET g == GCD(Abs(n), Abs(d))
        s == IF d < 0 THEN -1 ELSE 1
    IN  <<s * (n \div g), s * (d \div g)>>

RInt(k) == <<k, 1>>

RMul(a, b) ==
    LET g1 == GCD(Abs(a[1]), b[2])
        g2 == GCD(Abs(b[1]), a[2])
    IN  <<(a[1] \div g1) * (b[1] \div g2), (a[2] \div g2) * (b[2] \div g1)>>

RAdd(a, b) ==
    LET g == GCD(a[2], b[2])
    IN  RNorm(a[1] * (b[2] \div g) + b[1] * (a[2] \div g), (a[2] \div g) * b[2])

RLess(a, b) == a[1] * b[2] < b[1] * a[2]

\* A float that may be NaN (the mean of an empty column).
NaN == [nan |-> TRUE, v |-> RInt(0)]
Num(r) == [nan |-> FALSE, v |-> r]
FMul(x, r) == IF x.nan THEN NaN ELSE Num(RMul(x.v, r))

RECURSIVE RSum(_)
RSum(s) == IF s = <<>> THEN RInt(0) ELSE RAdd(RSum(Tail(s)), Head(s))

\* pandas Series.mean(): NaN for an empty column.
Mean(s) == IF s = <<>> THEN NaN ELSE Num(RMul(RSum(s), RNorm(1, Len(s))))

\* ------------------------------------------- binary64 arithmetic on bits
\* A positive double is [m |-> bits, e |-> exponent]: the integer whose
\* binary digits are m (most significant first) times 2^e.
Precision == 53

\* Bits are handled a chunk at a time, which keeps every recursion shallow.
Chunk == 12

Pow2(k) == 2 ^ k

\* The w low binary digits of n, most significant first.
Bits(n, w) == [i \in 1..w |-> (n \div Pow2(w - i)) % 2]

RECURSIVE BitLen(_)
BitLen(n) == IF n = 0 THEN 0 ELSE 1 + BitLen(n \div 2)

BitsOf(n) == Bits(n, BitLen(n))

\* The value of a short bit sequence.
RECURSIVE NatOf(_)
NatOf(b) == IF b = <<>> THEN 0 ELSE 2 * NatOf(SubSeq(b, 1, Len(b) - 1)) + b[Len(b)]

RECURSIVE Trim(_)
Trim(b) == IF b # <<>> /\ Head(b) = 0 THEN Trim(Tail(b)) ELSE b

Zeros(k) == [i \in 1..k |-> 0]

\* b without its last chunk, and that chunk.
Upper(b) == SubSeq(b, 1, Len(b) - Chunk)
Lower(b) == SubSeq(b, Len(b) - Chunk + 1, Len(b))

\* Long division of the bits b by the small integer h: quotient and remainder.
RECURSIVE DivBits(_, _)
DivBits(b, h) ==
    IF Len(b) <= Chunk
    THEN [q |-> Bits(NatOf(b) \div h, Len(b)), r |-> NatOf(b) % h]
    ELSE LET p == DivBits(Upper(b), h)
             x == p.r * Pow2(Chunk) + NatOf(Lower(b))
         IN  [q |-> p.q \o Bits(x \div h, Chunk), r |-> x % h]

\* The bits b times the small integer d, plus carry.
RECURSIVE MulBits(_, _, _)
MulBits(b, d, carry) ==
    IF Len(b) <= Chunk
    THEN LET x == NatOf(b) * d + carry
         IN  BitsOf(x \div Pow2(Len(b))) \o Bits(x, Len(b))
    ELSE LET x == NatOf(Lower(b)) * d + carry
         IN  MulBits(Upper(b), d, x \div Pow2(Chunk)) \o Bits(x, Chunk)

IncBits(b) == MulBits(b, 1, 1)

\* Round the integer b (no leading zero; sticky: a nonzero part below it was
\* already cut off) to Precision bits, to nearest, ties to even.  s is the
\* number of low bits dropped.
Round53(b, sticky) ==
    IF Len(b) <= Precision
    THEN [m |-> b, s |-> 0]
    ELSE LET keep == SubSeq(b, 1, Precision)
             rest == SubSeq(b, Precision + 1, Len(b))
             half == rest[1] = 1
             more == sticky \/ \E i \in 2..Len(rest) : rest[i] = 1
             up   == half /\ (more \/ keep[Precision] = 1)
         IN  [m |-> IF up THEN IncBits(keep) ELSE keep, s |-> Len(rest)]

\* a / h in binary64, for integers a > 0, h > 0.
FDivInt(a, h) ==
    LET k  == Precision + Len(BitsOf(h)) + 1
        d  == DivBits(BitsOf(a) \o Zeros(k), h)
        rr == Round53(Trim(d.q), d.r # 0)
    IN  [m |-> rr.m, e |-> rr.s - k]

\* x * d in binary64, for a double x > 0 and an integer d > 0.
FMulInt(x, d) ==
    LET rr == Round53(Trim(MulBits(x.m, d, 0)), FALSE)
    IN  [m |-> rr.m, e |-> x.e + rr.s]

\* int(x) for a double x > 0: the integer part.
FTrunc(x) ==
    IF x.e >= 0 THEN NatOf(x.m \o Zeros(x.e))
    ELSE IF -x.e >= Len(x.m) THEN 0
    ELSE NatOf(SubSeq(x.m, 1, Len(x.m) + x.e))

\* int((24 / interval_hours) * days); interval_hours # 0 here.  Rounding is
\* symmetric in the sign and int() truncates toward zero.
ExpectedRows(h, d) ==
    IF h > 0 THEN FTrunc(FMulInt(FDivInt(24, h), d))
    ELSE -FTrunc(FMulInt(FDivInt(24, -h), d))

\* ------------------------------------------------------------ the inputs
TicksPerHour == 60 \div 15
TicksPerDay == 24 * TicksPerHour

\* A cell of the timestamp column: text pd.to_datetime parses to the instant
\* t, or text it coerces to NaT.
BadTime == [ok |-> FALSE, t |-> 0]
GoodTime(t) == [ok |-> TRUE, t |-> t]

\* A cell of the funding column: a numeral (in millionths) with or without
\* a trailing '%', or text pd.to_numeric coerces to NaN.
BadRate == [ok |-> FALSE, pct |-> FALSE, num |-> 0]
GoodRate(num, pct) == [ok |-> TRUE, pct |-> pct, num |-> num]

\* Timestamps of the general tables: 0:00, 0:30, 0:45, and 50 hours later;
\* their funding cells: unparseable text, or the text "0.01%".
TimeTicks == {0, 2, 3, 200}
TimeToks == {BadTime} \cup {GoodTime(t) : t \in TimeTicks}
RateToks == {BadRate, GoodRate(10000, TRUE)}

Tables == UNION {[1..n -> [time : TimeToks, funding : RateToks]] : n \in 0..MaxRows}

\* Tables on an exact grid of g hours, n grid points, at most one of them
\* (skip, or -1 for none) missing, every row with the same funding token.
GridIntervals == {1, 4, 188}
GridNums == {-200, -100, 1, 100, 200}

GridTable(g, n, skip, num) ==
    LET idx == SelectSeq([i \in 1..n |-> i - 1], LAMBDA i : i # skip)
    IN  [j \in 1..Len(idx) |->
            [time |-> GoodTime(idx[j] * g * TicksPerHour),
             funding |-> GoodRate(num, FALSE)]]

GridTables ==
    {GridTable(g, n, skip, num) :
        g \in GridIntervals, n \in 1..MaxGridRows, skip \in -1..(MaxGridRows - 1),
        num \in GridNums}

\* What the user may type into the interval widget instead of its default
\* (st.number_input has no min_value), and into the timeframe widget
\* (min_value=1, max_value=90).
IntervalChoices == {-1, 0, 1, 188}
DayChoices == {1, 47}
Formats == {"Decimal (e.g. 0.0001)", "Percent (e.g. 0.01%)"}

\* ------------------------------------------------------------- the state
VARIABLES
    pc,                   \* the block of the script the run has completed
    uploaded,             \* the rows of the uploaded file
    df,                   \* the data frame, mutated in place
    detected_interval,    \* hours between the first two rows, or the fallback
    interval_seed,        \* round(detected_interval), the widget's default
    interval_hours,
    funding_format,
    days,
    cutoff_time,
    df_filtered,
    expected_rows,
    actual_rows,
    warnings,             \* the st.warning messages shown
    annualized_apr_clean,
    average_apr_legacy,
    metrics,              \* the two st.metric values shown
    colors,
    logic_df

vars == <<pc, uploaded, df, detected_interval, interval_seed, interval_hours,
          funding_format, days, cutoff_time, df_filtered, expected_rows,
          actual_rows, warnings, annualized_apr_clean, average_apr_legacy,
          metrics, colors, logic_df>>

NaT == [nat |-> TRUE, t |-> 0]
At(t) == [nat |-> FALSE, t |-> t]

Start(table) ==
    /\ pc = "uploaded"
    /\ uploaded = table
    /\ df = table
    /\ detected_interval = RInt(0)
    /\ interval_seed = 0
    /\ interval_hours = 0
    /\ funding_format = ""
    /\ days = 0
    /\ cutoff_time = NaT
    /\ df_filtered = <<>>
    /\ expected_rows = 0
    /\ actual_rows = 0
    /\ warnings = <<>>
    /\ annualized_apr_clean = NaN
    /\ average_apr_legacy = NaN
    /\ metrics = <<>>
    /\ colors = <<>>
    /\ logic_df = <<>>

Init == \E table \in Tables : Start(table)

InitGrid == \E table \in GridTables : Start(table)

\* ------------------------------------------------------ the pure pieces
\* A timestamp stage that also drops the rows whose rate will not parse.
ParsedRowsRatesFirst(table) ==
    LET kept == SelectSeq(table, LAMBDA r : r.time.ok /\ r.funding.ok)
    IN  [i \in 1..Len(kept) |-> [time |-> kept[i].time.t, funding |-> kept[i].funding]]

\* pd.to_datetime(errors='coerce') then dropna: rows whose timestamp parsed.
ParsedRows(table) ==
    LET kept == SelectSeq(table, LAMBDA r : r.time.ok)
    IN  [i \in 1..Len(kept) |-> [time |-> kept[i].time.t, funding |-> kept[i].funding]]

MinTime(rows, S) == CHOOSE m \in {rows[i].time : i \in S} :
                        \A i \in S : m <= rows[i].time

\* sort_values(by=time_col): every ascending arrangement of the rows (the
\* default sort kind is not stable, so rows with equal timestamps may come
\* out in any order).
RECURSIVE SortedOrders(_, _)
SortedOrders(rows, S) ==
    IF S = {} THEN {<<>>}
    ELSE UNION {{<<rows[i]>> \o rest : rest \in SortedOrders(rows, S \ {i})} :
                    i \in {j \in S : rows[j].time = MinTime(rows, S)}}

\* A seed that truncates the hours instead of rounding them.
PyRoundTruncating(r) == r[1] \div r[2]

\* Python's round(): to the nearest integer, ties to the even one.
PyRound(r) ==
    LET f   == r[1] \div r[2]
        rem == r[1] - f * r[2]
    IN  IF 2 * rem < r[2] THEN f
        ELSE IF 2 * rem > r[2] THEN f + 1
        ELSE IF f % 2 = 0 THEN f ELSE f + 1

\* Lines 41-44.
DetectedInterval(rows) ==
    IF Len(rows) > 1
    THEN RNorm(rows[2].time - rows[1].time, TicksPerHour)
    ELSE RInt(4)

\* Lines 49-50: strip '%', then pd.to_numeric(errors='coerce').
ToNumeric(tok) == IF tok.ok THEN Num(RNorm(tok.num, 1000 * 1000)) ELSE NaN

\* Lines 49-54: the rows whose funding parsed, as decimal fractions.
NormalizedRows(rows, format) ==
    LET kept == SelectSeq(rows, LAMBDA r : ~ToNumeric(r.funding).nan)
        rate(tok) == IF format = "Percent (e.g. 0.01%)"
                     THEN RMul(ToNumeric(tok).v, RNorm(1, 100))
                     ELSE ToNumeric(tok).v
    IN  [i \in 1..Len(kept) |-> [time |-> kept[i].time, funding |-> rate(kept[i].funding)]]

\* Line 56.
FundingPct(rate) == RMul(rate, RInt(100))

\* Line 57; interval_hours # 0.
RowApr(rate, h) == RMul(RMul(rate, RNorm(365 * 24, h)), RInt(100))

MaxTime(rows) == CHOOSE m \in {rows[i].time : i \in 1..Len(rows)} :
                     \A i \in 1..Len(rows) : rows[i].time <= m

\* A cutoff counted from the earliest row instead of the latest.
CutoffTimeFromEarliest(rows, d) ==
    IF rows = <<>> THEN NaT ELSE At(MinTime(rows, 1..Len(rows)) - d * TicksPerDay)

\* Line 60: max() of an empty column is NaT, and NaT - timedelta is NaT.
CutoffTime(rows, d) ==
    IF rows = <<>> THEN NaT ELSE At(MaxTime(rows) - d * TicksPerDay)

\* Line 61: a comparison with NaT is False.
FilterRows(rows, cutoff) ==
    IF cutoff.nat THEN <<>> ELSE SelectSeq(rows, LAMBDA r : r.time >= cutoff.t)

Column(rows, name) == [i \in 1..Len(rows) |-> rows[i][name]]

\* Line 70.
AnnualizedAprClean(avg) == FMul(FMul(FMul(avg, RInt(365)), RInt(24)), RInt(100))

\* Lines 74-75: f"{x:.2f}%" prints a NaN as "nan%".
Fmt2(x) == [text |-> IF x.nan THEN "nan%" ELSE "%.2f%", of |-> x.v]

\* Lines 83-91.
apr_to_color(apr) ==
    IF RLess(RInt(100), apr) THEN "green"
    ELSE IF RLess(apr, RInt(-100)) THEN "red"
    ELSE IF RLess(apr, RInt(1)) THEN "orange"
    ELSE "blue"

\* ------------------------------------------------------------ the blocks
\* Lines 37-39: parse the timestamps, drop the NaT rows, sort.
ParseTimestamps ==
    /\ pc = "uploaded"
    /\ \E sorted \in SortedOrders(ParsedRows(df), 1..Len(ParsedRows(df))) :
           df' = sorted
    /\ pc' = "parsed"
    /\ UNCHANGED <<uploaded, detected_interval, interval_seed, interval_hours,
                   funding_format, days, cutoff_time, df_filtered, expected_rows,
                   actual_rows, warnings, annualized_apr_clean,
                   average_apr_legacy, metrics, colors, logic_df>>

\* Lines 41-45: detect the interval and read the interval widget, whose
\* value is its default unless the user typed another.
DetectInterval ==
    /\ pc = "parsed"
    /\ detected_interval' = DetectedInterval(df)
    /\ interval_seed' = PyRound(DetectedInterval(df))
    /\ \E h \in {PyRound(DetectedInterval(df))} \cup IntervalChoices :
           interval_hours' = h
    /\ pc' = "interval"
    /\ UNCHANGED <<uploaded, df, funding_format, days, cutoff_time, df_filtered,
                   expected_rows, actual_rows, warnings, annualized_apr_clean,
                   average_apr_legacy, metrics, colors, logic_df>>

\* Lines 47-54: read the format, parse the rates, drop the NaN rows, scale.
NormalizeRates ==
    /\ pc = "interval"
    /\ \E format \in Formats :
           /\ funding_format' = format
           /\ df' = NormalizedRows(df, format)
    /\ pc' = "normalized"
    /\ UNCHANGED <<uploaded, detected_interval, interval_seed, interval_hours,
                   days, cutoff_time, df_filtered, expected_rows, actual_rows,
                   warnings, annualized_apr_clean, average_apr_legacy, metrics,
                   colors, logic_df>>

\* Lines 56-57 with interval_hours # 0: the two derived columns.
ComputeApr ==
    /\ pc = "normalized"
    /\ interval_hours # 0
    /\ df' = [i \in 1..Len(df) |->
                 [time |-> df[i].time, funding |-> df[i].funding,
                  funding_pct |-> FundingPct(df[i].funding),
                  apr |-> RowApr(df[i].funding, interval_hours)]]
    /\ pc' = "apr"
    /\ UNCHANGED <<uploaded, detected_interval, interval_seed, interval_hours,
                   funding_format, days, cutoff_time, df_filtered, expected_rows,
                   actual_rows, warnings, annualized_apr_clean,
                   average_apr_legacy, metrics, colors, logic_df>>

\* Line 57 with interval_hours = 0: 365 * 24 / 0 raises ZeroDivisionError
\* and the run ends there.
ComputeAprRaises ==
    /\ pc = "normalized"
    /\ interval_hours = 0
    /\ pc' = "ZeroDivisionError"
    /\ UNCHANGED <<uploaded, df, detected_interval, interval_seed, interval_hours,
                   funding_format, days, cutoff_time, df_filtered, expected_rows,
                   actual_rows, warnings, annualized_apr_clean,
                   average_apr_legacy, metrics, colors, logic_df>>

\* Lines 59-61: read the timeframe, cut the trailing window.
FilterWindow ==
    /\ pc = "apr"
    /\ \E d \in DayChoices :
           /\ days' = d
           /\ cutoff_time' = CutoffTime(df, d)
           /\ df_filtered' = FilterRows(df, CutoffTime(df, d))
    /\ pc' = "filtered"
    /\ UNCHANGED <<uploaded, df, detected_interval, interval_seed, interval_hours,
                   funding_format, expected_rows, actual_rows, warnings,
                   annualized_apr_clean, average_apr_legacy, metrics, colors,
                   logic_df>>

\* Lines 63-67: the row count validator.
CheckRows ==
    /\ pc = "filtered"
    /\ expected_rows' = ExpectedRows(interval_hours, days)
    /\ actual_rows' = Len(df_filtered)
    /\ warnings' = IF Len(df_filtered) < ExpectedRows(interval_hours, days)
                   THEN Append(warnings,
                               [what |-> "rows found in timeframe",
                                actual |-> Len(df_filtered),
                                expected |-> ExpectedRows(interval_hours, days)])
                   ELSE warnings
    /\ pc' = "checked"
    /\ UNCHANGED <<uploaded, df, detected_interval, interval_seed, interval_hours,
                   funding_format, days, cutoff_time, df_filtered,
                   annualized_apr_clean, average_apr_legacy, metrics, colors,
                   logic_df>>

\* Lines 69-75: the two aggregates and their display.
Aggregate ==
    /\ pc = "checked"
    /\ annualized_apr_clean' = AnnualizedAprClean(Mean(Column(df_filtered, "funding")))
    /\ average_apr_legacy' = Mean(Column(df_filtered, "apr"))
    /\ metrics' = <<Fmt2(AnnualizedAprClean(Mean(Column(df_filtered, "funding")))),
                    Fmt2(Mean(Column(df_filtered, "apr")))>>
    /\ pc' = "aggregated"
    /\ UNCHANGED <<uploaded, df, detected_interval, interval_seed, interval_hours,
                   funding_format, days, cutoff_time, df_filtered, expected_rows,
                   actual_rows, warnings, colors, logic_df>>

\* Lines 83-93: the threshold squares.
Squares ==
    /\ pc = "aggregated"
    /\ colors' = [i \in 1..Len(df_filtered) |-> apr_to_color(df_filtered[i].apr)]
    /\ pc' = "squares"
    /\ UNCHANGED <<uploaded, df, detected_interval, interval_seed, interval_hours,
                   funding_format, days, cutoff_time, df_filtered, expected_rows,
                   actual_rows, warnings, annualized_apr_clean,
                   average_apr_legacy, metrics, logic_df>>

\* Lines 121-130: the logic snapshot.
LogicSnapshot ==
    /\ pc = "squares"
    /\ logic_df' = <<[interval |-> interval_hours,
                      timeframe |-> days,
                      format |-> funding_format,
                      rows_used |-> actual_rows,
                      rows_expected |-> expected_rows,
                      website_apr |-> annualized_apr_clean,
                      legacy_apr |-> average_apr_legacy]>>
    /\ pc' = "done"
    /\ UNCHANGED <<uploaded, df, detected_interval, interval_seed, interval_hours,
                   funding_format, days, cutoff_time, df_filtered, expected_rows,
                   actual_rows, warnings, annualized_apr_clean,
                   average_apr_legacy, metrics, colors>>

Next ==
    \/ ParseTimestamps
    \/ DetectInterval
    \/ NormalizeRates
    \/ ComputeApr
    \/ ComputeAprRaises
    \/ FilterWindow
    \/ CheckRows
    \/ Aggregate
    \/ Squares
    \/ LogicSnapshot

Spec == Init /\ [][Next]_vars

SpecGrid == InitGrid /\ [][Next]_vars

\* ------------------------------------------------------------ the claims
\* Positions of the run, in source order.
AfterDetect == {"interval", "normalized", "apr", "ZeroDivisionError", "filtered",
                "checked", "aggregated", "squares", "done"}
AfterApr == {"apr", "filtered", "checked", "aggregated", "squares", "done"}
AfterCheck == {"checked", "aggregated", "squares", "done"}
AfterAggregate == {"aggregated", "squares", "done"}

\* The rows of the uploaded file whose timestamp is well formed, whose rate is
\* well formed, and their two smallest timestamps, read off the file itself.
TimeOk == {i \in 1..Len(uploaded) : uploaded[i].time.ok}
BothOk == {i \in TimeOk : uploaded[i].funding.ok}
Earliest(S) == CHOOSE i \in S : \A j \in S : uploaded[i].time.t <= uploaded[j].time.t
FirstGap ==
    uploaded[Earliest(TimeOk \ {Earliest(TimeOk)})].time.t - uploaded[Earliest(TimeOk)].time.t

\* C9: once the interval is detected, the widget's default is the fallback 4
\* when fewer than two rows have a valid timestamp, and otherwise a whole
\* number of hours nearest to the gap between the two smallest valid
\* timestamps of the file, whatever the order of its rows; a table of 0 or 1
\* valid rows does not stop the detection.
C9_SeedIsNearestHourOfFirstGap ==
    /\ pc \in AfterDetect =>
          IF Cardinality(TimeOk) >= 2
          THEN Abs(TicksPerHour * interval_seed - FirstGap) * 2 <= TicksPerHour
          ELSE interval_seed = 4
    /\ pc = "parsed" /\ Len(df) <= 1 => ENABLED DetectInterval

\* C9 witness: a file whose rows are out of order, with three valid
\* timestamps 45 minutes apart at the start, seeded with 1 hour.
C9_Witness ==
    /\ pc = "interval"
    /\ Cardinality(TimeOk) = 3
    /\ uploaded[1].time.ok /\ uploaded[2].time.ok
    /\ uploaded[1].time.t > uploaded[2].time.t
    /\ FirstGap = 3
    /\ interval_seed = 1

\* The rows a window of d days keeps, for the normalized table df.
RowsUsedFor(d) == Len(FilterRows(df, CutoffTime(df, d)))

\* C6: rows_used is the number of normalized rows at or after
\* max(timestamp) - window_days * 24h, and for the table of a run a larger
\* window never keeps fewer rows.
C6_RowsUsedMonotoneInWindow ==
    /\ pc \in AfterCheck =>
          actual_rows = Cardinality({i \in 1..Len(df) :
                            \A j \in 1..Len(df) :
                                df[i].time >= df[j].time - days * TicksPerDay})
    /\ pc = "apr" => \A d \in 1..89 : RowsUsedFor(d) <= RowsUsedFor(d + 1)

\* C6 witness: a run whose window dropped a row that a larger window keeps.
C6_Witness ==
    /\ pc = "done"
    /\ actual_rows >= 1
    /\ actual_rows < Len(df)
    /\ \E d \in DayChoices : d > days /\ RowsUsedFor(d) > actual_rows

\* C7, as claimed: the rows with unparseable rates are dropped and the window
\* is applied before the interval is estimated, so the estimate is that of
\* the first two rows of the normalized, window-filtered table, and the
\* per-row APR is computed only after the window filter.
C7_StagesInClaimedOrder ==
    /\ pc = "interval" => days # 0 /\ \A i \in 1..Len(df) : df[i].funding.ok
    /\ pc = "apr" => days # 0
    /\ pc = "done" => interval_seed = PyRound(DetectedInterval(df_filtered))

\* C7, amended: the interval is estimated from the first two rows of the
\* timestamp-sorted table while the rows with unparseable rates are still in
\* it and before any window is chosen; the per-row APR is computed on the
\* normalized table before the window filter and the completeness check; the
\* completeness check comes before the aggregates.
C7_StagesInSourceOrder ==
    /\ pc = "interval" =>
          /\ Len(df) = Cardinality(TimeOk)
          /\ funding_format = ""
          /\ days = 0
    /\ pc \in AfterDetect =>
          detected_interval = IF Cardinality(TimeOk) >= 2
                              THEN RNorm(FirstGap, TicksPerHour)
                              ELSE RInt(4)
    /\ pc = "apr" =>
          /\ Len(df) = Cardinality(BothOk)
          /\ days = 0
          /\ df_filtered = <<>>
          /\ warnings = <<>>
    /\ pc = "checked" => metrics = <<>> /\ average_apr_legacy.nan

\* C7 witness: a finished run whose estimate is not the one the first two
\* rows of its normalized, window-filtered table give.
C7_Witness ==
    /\ pc = "done"
    /\ Cardinality(TimeOk) >= 2
    /\ Cardinality(BothOk) < Cardinality(TimeOk)
    /\ interval_seed # PyRound(DetectedInterval(df_filtered))

\* C3: no run gets to the per-row APR computation (or beyond it) with
\* interval_hours <= 0.
C3_NonPositiveIntervalRejected ==
    pc \in AfterApr \cup {"ZeroDivisionError"} => interval_hours > 0

\* C4: when the filtered table is empty (and the interval is valid) both
\* aggregates are shown as "N/A", and no NaN reaches the metrics or the logic
\* summary.
C4_EmptyTableReportsNA ==
    /\ pc \in AfterAggregate /\ interval_hours > 0 /\ df_filtered = <<>> =>
          \A i \in 1..Len(metrics) : metrics[i].text = "N/A"
    /\ pc = "done" /\ interval_hours > 0 /\ df_filtered = <<>> =>
          ~logic_df[1].website_apr.nan /\ ~logic_df[1].legacy_apr.nan

\* C5: for interval_hours > 0, expected_rows is floor(window_days * 24 /
\* interval_hours), the advisory is shown exactly when fewer rows than that
\* were kept, and the run goes on to the aggregates and the logic summary.
C5_ExpectedRowsIsFloor ==
    /\ pc \in AfterCheck /\ interval_hours > 0 =>
          /\ expected_rows = (days * 24) \div interval_hours
          /\ warnings # <<>> <=> actual_rows < expected_rows
    /\ pc = "done" /\ interval_hours > 0 =>
          /\ logic_df[1].rows_used = actual_rows
          /\ logic_df[1].rows_expected = (days * 24) \div interval_hours

\* C8: every row with a malformed timestamp or rate is dropped, and a
\* finished run (with a valid interval) that dropped rows has reported how
\* many.
C8_DroppedRowsReported ==
    pc = "done" /\ interval_hours > 0 =>
        /\ Len(df) = Cardinality(BothOk)
        /\ Len(uploaded) > Len(df) =>
              \E i \in 1..Len(warnings) :
                  /\ warnings[i].what = "rows dropped"
                  /\ warnings[i].actual = Len(uploaded) - Len(df)

\* The normalized table lies on a grid of h hours, point by point.
OnGrid(h) ==
    \A i \in 1..Len(df) : df[i].time = df[1].time + (i - 1) * h * TicksPerHour

\* The normalized table lies on a grid of h hours with exactly one point
\* missing, and that point is inside the window.
OnGridButOne(h) ==
    \E k \in 1..(Len(df) - 1) :
        /\ \A i \in 1..Len(df) :
              df[i].time = df[1].time + (IF i <= k THEN i - 1 ELSE i) * h * TicksPerHour
        /\ df[k].time + h * TicksPerHour >= cutoff_time.t

LongHistory ==
    Len(df) >= 1 /\ df[Len(df)].time - df[1].time >= days * TicksPerDay

\* C10: for gap-free data on a grid of interval_hours = h, with h dividing
\* 24 * window_days and a history at least the window long, rows_used is
\* expected_rows + 1; with exactly one grid row of the window missing no
\* advisory is shown.
C10_GridKeepsExpectedPlusOne ==
    pc \in AfterCheck /\ interval_hours > 0
        /\ (24 * days) % interval_hours = 0 /\ LongHistory =>
            /\ OnGrid(interval_hours) => actual_rows = expected_rows + 1
            /\ OnGridButOne(interval_hours) => warnings = <<>>

\* C1: for a non-empty filtered table of n rows all with the same rate r, and
\* window_days = n * h / 24, the website-style APR and the legacy average
\* APR are both r * (365 * 24 / h) * 100.
C1_ConstantRateAggregatesAgree ==
    pc \in AfterAggregate /\ df_filtered # <<>> /\ interval_hours > 0
        /\ (\A i \in 1..Len(df_filtered) : df_filtered[i].funding = df_filtered[1].funding)
        /\ Len(df_filtered) * interval_hours = 24 * days =>
            /\ annualized_apr_clean = Num(RowApr(df_filtered[1].funding, interval_hours))
            /\ average_apr_legacy = Num(RowApr(df_filtered[1].funding, interval_hours))

\* The bucket the claim gives an APR value.
ClaimedBucket(apr) ==
    IF RLess(RInt(100), apr) THEN "green"
    ELSE IF RLess(apr, RInt(-100)) THEN "red"
    ELSE IF RLess(RInt(-1), apr) /\ RLess(apr, RInt(1)) THEN "orange"
    ELSE "blue"

\* C2: apr > 100 is high-positive (green), apr < -100 high-negative (red),
\* |apr| < 1 near-zero (orange) and every other value moderate (blue).
C2_ColorsFollowClaimedBuckets ==
    pc \in {"squares", "done"} =>
        \A i \in 1..Len(colors) : colors[i] = ClaimedBucket(df_filtered[i].apr)

====
